---- MODULE Spec2Model ----
(***************************************************************************)
(* Model of src/app.py: the vocabulary index, the special pattern          *)
(* detector, the matching cascade, the response resolver and the /chat     *)
(* handler with its fallback chain.                                        *)
(*                                                                         *)
(* Python str values are TLA+ strings (TLC evaluates Len, SubSeq and \o on *)
(* them); a dict is the sequence of its items in insertion order; the      *)
(* weights 1.0, 1.2, 0.8 and every score are kept in tenths.               *)
(***************************************************************************)
EXTENDS Integers, Sequences, FiniteSets, TLC

VARIABLES
    KB, GLOSSARY, MEDICINES,  \* the three collections loaded at startup
    qa_model,                 \* whether the QA pipeline loaded
    VOCAB,                    \* the vocabulary index
    pc,                       \* where startup or the running handler stands
    data,                     \* the request's JSON body
    text, lang,               \* chat's locals
    match,                    \* typ, key, matched, question_type (and the returning step)
    reply, response,          \* chat's reply and the body it returns
    calls                     \* the calls the handler has made, in order

vars == <<KB, GLOSSARY, MEDICINES, qa_model, VOCAB, pc, data, text, lang, match, reply,
          response, calls>>

knowledge == <<KB, GLOSSARY, MEDICINES, qa_model, VOCAB>>

request == <<data, text, lang, match, reply, response, calls>>

\* Python's None: a string outside every text domain of the model.
None == "<None>"

\* ------------------------------------------------------------------ str

LowerAlpha == "abcdefghijklmnopqrstuvwxyz"
UpperAlpha == "ABCDEFGHIJKLMNOPQRSTUVWXYZ"
DigitChars == "0123456789"

Char(s, i) == SubSeq(s, i, i)

CharsOf(s) == {Char(s, i) : i \in 1..Len(s)}

\* The characters the class [a-z0-9] matches.
AlnumSet == CharsOf(LowerAlpha) \cup CharsOf(DigitChars)

\* The characters \s matches and str.strip() / str.split() treat as blank.
SpaceSet == {" ", "\t", "\n", "\r", "\f"}

UpperToLower == [c \in CharsOf(UpperAlpha) |->
                    Char(LowerAlpha, CHOOSE i \in 1..26 : Char(UpperAlpha, i) = c)]

LowerChar(c) == IF c \in DOMAIN UpperToLower THEN UpperToLower[c] ELSE c

RECURSIVE LowerFrom(_, _)
LowerFrom(s, i) ==
    IF i > Len(s) THEN "" ELSE LowerChar(Char(s, i)) \o LowerFrom(s, i + 1)

\* str.lower()
lower(s) == LowerFrom(s, 1)

\* re.sub(<class>+, ' ', s): every maximal run of matching characters becomes
\* one space. A character matches when (c \in M) differs from neg, so
\* neg = TRUE is a negated class [^...].
RECURSIVE SubRunsFrom(_, _, _, _, _)
SubRunsFrom(s, i, M, neg, inRun) ==
    IF i > Len(s) THEN ""
    ELSE LET c == Char(s, i)
             m == (c \in M) # neg
         IN  IF m
             THEN (IF inRun THEN "" ELSE " ") \o SubRunsFrom(s, i + 1, M, neg, TRUE)
             ELSE c \o SubRunsFrom(s, i + 1, M, neg, FALSE)

ReSubRuns(M, neg, s) == SubRunsFrom(s, 1, M, neg, FALSE)

RECURSIVE LStrip(_)
LStrip(s) ==
    IF Len(s) > 0 /\ Char(s, 1) \in SpaceSet THEN LStrip(SubSeq(s, 2, Len(s))) ELSE s

RECURSIVE RStrip(_)
RStrip(s) ==
    IF Len(s) > 0 /\ Char(s, Len(s)) \in SpaceSet
    THEN RStrip(SubSeq(s, 1, Len(s) - 1)) ELSE s

\* str.strip()
strip(s) == RStrip(LStrip(s))

\* str.split(): the maximal runs of non-blank characters, in order.
RECURSIVE SplitFrom(_, _, _)
SplitFrom(s, i, cur) ==
    IF i > Len(s) THEN (IF cur = "" THEN <<>> ELSE <<cur>>)
    ELSE IF Char(s, i) \in SpaceSet
         THEN (IF cur = "" THEN <<>> ELSE <<cur>>) \o SplitFrom(s, i + 1, "")
         ELSE SplitFrom(s, i + 1, cur \o Char(s, i))

split(s) == SplitFrom(s, 1, "")

Range(q) == {q[i] : i \in 1..Len(q)}

\* set(s.split())
WordSet(s) == Range(split(s))

\* sub in s
Contains(sub, s) ==
    \E i \in 1..(Len(s) - Len(sub) + 1) : SubSeq(s, i, i + Len(sub) - 1) = sub

\* `not x` for a value that is None or a str.
Falsy(x) == x = None \/ x = ""

\* ------------------------------------------------------------------ dict

DictHas(d, k) == \E i \in 1..Len(d) : d[i].k = k

DictGet(d, k) == d[CHOOSE i \in 1..Len(d) : d[i].k = k].v

\* d[k] = v: an existing key keeps its place in the iteration order.
DictSet(d, k, v) ==
    IF DictHas(d, k)
    THEN [i \in 1..Len(d) |-> IF d[i].k = k THEN [k |-> k, v |-> v] ELSE d[i]]
    ELSE Append(d, [k |-> k, v |-> v])

DictKeys(d) == [i \in 1..Len(d) |-> d[i].k]

\* ------------------------------------------------------------------ normalize

\* The characters [^a-z0-9\s] does not match.
KeptSet == AlnumSet \cup SpaceSet

\* Each intermediate string is bound as a value, so that it is computed once
\* wherever normalize is evaluated.
normalize(t) ==
    CHOOSE t4 \in
        {strip(t3) : t3 \in
            {ReSubRuns(SpaceSet, FALSE, t2) : t2 \in
                {ReSubRuns(KeptSet, TRUE, t1) : t1 \in
                    {lower(IF Falsy(t) THEN "" ELSE t)}}}} : TRUE

\* ------------------------------------------------------------------ vocabulary

medication_terms ==
    <<"arv", "art", "hiv drug", "antiretroviral", "medication", "medicine",
      "drug", "pill", "tablet">>

VocabValue(typ, k, weight) == [typ |-> typ, key |-> k, weight |-> weight]

\* for tag in item.get('tags', []): VOCAB[tag.lower()] = ('kb', key, 1.0)
RECURSIVE AddTags(_, _, _, _)
AddTags(V, k, tags, j) ==
    IF j > Len(tags) THEN V
    ELSE AddTags(DictSet(V, lower(tags[j]), VocabValue("kb", k, 10)), k, tags, j + 1)

RECURSIVE AddKBFrom(_, _, _)
AddKBFrom(V, kb, i) ==
    IF i > Len(kb) THEN V
    ELSE AddKBFrom(AddTags(V, kb[i].k, kb[i].v.tags, 1), kb, i + 1)

AddKBEntries(V, kb) == AddKBFrom(V, kb, 1)

RECURSIVE AddGlossaryFrom(_, _, _)
AddGlossaryFrom(V, g, i) ==
    IF i > Len(g) THEN V
    ELSE AddGlossaryFrom(DictSet(V, lower(g[i].k), VocabValue("glossary", g[i].k, 10)),
                         g, i + 1)

AddGlossaryEntries(V, g) == AddGlossaryFrom(V, g, 1)

RECURSIVE AddMedicineFrom(_, _, _)
AddMedicineFrom(V, m, i) ==
    IF i > Len(m) THEN V
    ELSE AddMedicineFrom(DictSet(V, lower(m[i].k), VocabValue("medicine", m[i].k, 12)),
                         m, i + 1)

AddMedicineEntries(V, m) == AddMedicineFrom(V, m, 1)

\* AddTerm without its guard: the synonym list overwrites like the other loops.
AddTermOverwriting(V, term) == DictSet(V, term, VocabValue("medicine", "arv_examples", 8))

\* if term not in VOCAB: VOCAB[term] = ('medicine', 'arv_examples', 0.8)
AddTerm(V, term) ==
    IF ~DictHas(V, term)
    THEN DictSet(V, term, VocabValue("medicine", "arv_examples", 8))
    ELSE V

RECURSIVE AddTermsFrom(_, _)
AddTermsFrom(V, i) ==
    IF i > Len(medication_terms) THEN V
    ELSE AddTermsFrom(AddTerm(V, medication_terms[i]), i + 1)

AddMedicationTerms(V) == AddTermsFrom(V, 1)

BuildVocab(kb, g, m) ==
    AddMedicationTerms(AddMedicineEntries(AddGlossaryEntries(AddKBEntries(<<>>, kb), g), m))

\* ------------------------------------------------------------------ patterns

SPECIAL_MEDICATION_PATTERNS ==
    <<[name |-> "arv_examples",
       patterns |-> <<"examples of arv", "arv examples", "list of arv", "arv drugs",
                      "hiv drugs list", "arv medications", "types of arv", "arv list",
                      "hiv medications", "give me examples of arv">>,
       field |-> "medicine_key", target |-> "arv_examples", priority |-> 10],
      [name |-> "arv_definition",
       patterns |-> <<"what is arv", "arv keng", "arv meaning", "define arv",
                      "arv ke eng", "art keng", "art ke eng">>,
       field |-> "glossary_key", target |-> "art", priority |-> 9],
      [name |-> "hiv_definition",
       patterns |-> <<"what is hiv", "hiv keng", "hiv meaning", "define hiv",
                      "hiv ke eng">>,
       field |-> "glossary_key", target |-> "hiv", priority |-> 9]>>

\* The (pattern, phrase) positions whose phrase occurs in clean.
PatternHits(clean) ==
    {p \in {<<i, j>> : i \in 1..Len(SPECIAL_MEDICATION_PATTERNS), j \in 1..10} :
        /\ p[2] <= Len(SPECIAL_MEDICATION_PATTERNS[p[1]].patterns)
        /\ Contains(SPECIAL_MEDICATION_PATTERNS[p[1]].patterns[p[2]], clean)}

\* The first hit in the order of the two nested loops.
FirstHit(hits) ==
    CHOOSE p \in hits : \A q \in hits : p[1] < q[1] \/ (p[1] = q[1] /\ p[2] <= q[2])

\* The tuple returned for the hit p.
SpecialMatch(info, j) ==
    [typ |-> IF info.field = "medicine_key" THEN "medicine" ELSE "glossary",
     key |-> info.target,
     matched |-> info.patterns[j],
     priority |-> info.priority]

FirstSpecialMatch(hits) ==
    IF hits = {} THEN <<>>
    ELSE <<SpecialMatch(SPECIAL_MEDICATION_PATTERNS[FirstHit(hits)[1]], FirstHit(hits)[2])>>

\* <<>> is None, <<r>> the tuple r.
detect_special_medication_patterns(t) == FirstSpecialMatch(PatternHits(normalize(t)))

\* ------------------------------------------------------------------ difflib

\* The characters of s as a tuple.
Chars(s) == [i \in 1..Len(s) |-> Char(s, i)]

\* The length of the common run of a and b from (i, j), inside a[..ahi], b[..bhi].
RECURSIVE RunLen(_, _, _, _, _, _)
RunLen(a, b, i, j, ahi, bhi) ==
    IF i > ahi \/ j > bhi THEN 0
    ELSE IF a[i] # b[j] THEN 0
    ELSE 1 + RunLen(a, b, i + 1, j + 1, ahi, bhi)

\* The common blocks of a[alo..ahi] and b[blo..bhi] that cannot be extended to
\* the left, each start with its length.
Blocks(a, b, alo, ahi, blo, bhi) ==
    [p \in {q \in (alo..ahi) \X (blo..bhi) :
                /\ a[q[1]] = b[q[2]]
                /\ (q[1] = alo \/ q[2] = blo \/ a[q[1] - 1] # b[q[2] - 1])}
        |-> RunLen(a, b, p[1], p[2], ahi, bhi)]

MaxIn(S) == CHOOSE k \in S : \A n \in S : n <= k

\* The start that is earliest in a and, of those, earliest in b.
Earliest(starts) ==
    CHOOSE p \in starts : \A q \in starts : p[1] < q[1] \/ (p[1] = q[1] /\ p[2] <= q[2])

Longest(run, size) == Earliest({p \in DOMAIN run : run[p] = size}) \o <<size>>

\* SequenceMatcher.find_longest_match (no junk): the longest common block, of
\* those the earliest in a, of those the earliest in b. A longest block
\* cannot be extended to the left.
LongestOf(run, alo, blo) ==
    IF DOMAIN run = {} THEN <<alo, blo, 0>>
    ELSE Longest(run, MaxIn({run[p] : p \in DOMAIN run}))

LongestMatch(a, b, alo, ahi, blo, bhi) == LongestOf(Blocks(a, b, alo, ahi, blo, bhi), alo, blo)

\* The sum of the sizes of SequenceMatcher.get_matching_blocks(): the longest
\* block m, then the same to its left and to its right.
RECURSIVE MatchCount(_, _, _, _, _, _)
RECURSIVE MatchAround(_, _, _, _, _, _, _)
MatchAround(a, b, alo, ahi, blo, bhi, m) ==
    IF m[3] = 0 THEN 0
    ELSE m[3] + MatchCount(a, b, alo, m[1] - 1, blo, m[2] - 1)
              + MatchCount(a, b, m[1] + m[3], ahi, m[2] + m[3], bhi)

MatchCount(a, b, alo, ahi, blo, bhi) ==
    IF alo > ahi \/ blo > bhi THEN 0
    ELSE MatchAround(a, b, alo, ahi, blo, bhi, LongestMatch(a, b, alo, ahi, blo, bhi))

Matches(x, y) == MatchCount(Chars(x), Chars(y), 1, Len(x), 1, Len(y))

Count(q, c) == Cardinality({i \in 1..Len(q) : q[i] = c})

MinOf(a, b) == IF a <= b THEN a ELSE b

RECURSIVE QuickCount(_, _, _)
QuickCount(a, b, S) ==
    IF S = {} THEN 0
    ELSE MinOf(Count(a, CHOOSE c \in S : TRUE), Count(b, CHOOSE c \in S : TRUE))
         + QuickCount(a, b, S \ {CHOOSE c \in S : TRUE})

\* The matches SequenceMatcher.quick_ratio() counts: the characters of x that
\* y has, with multiplicity.
QuickMatches(x, y) == QuickCount(Chars(x), Chars(y), CharsOf(x))

\* _calculate_ratio(matches, length) >= 0.4: 2.0 * matches / length, and 1.0
\* when length is 0.
RatioAtLeastCutoff(matches, length) ==
    IF length = 0 THEN TRUE ELSE 5 * matches >= length

\* ratio 1 < ratio 2, each given as <<matches, length>>
RatioLess(r1, r2) ==
    IF r1[2] = 0 THEN FALSE
    ELSE IF r2[2] = 0 THEN TRUE
    ELSE r1[1] * r2[2] < r2[1] * r1[2]

\* The characters of vocabulary terms, in code point order.
CharOrder == " 0123456789_abcdefghijklmnopqrstuvwxyz"

Ord(c) == CHOOSE i \in 1..Len(CharOrder) : Char(CharOrder, i) = c

\* x < y on str
RECURSIVE StrLess(_, _)
StrLess(x, y) ==
    IF Len(y) = 0 THEN FALSE
    ELSE IF Len(x) = 0 THEN TRUE
    ELSE IF Char(x, 1) = Char(y, 1) THEN StrLess(SubSeq(x, 2, Len(x)), SubSeq(y, 2, Len(y)))
    ELSE Ord(Char(x, 1)) < Ord(Char(y, 1))

\* difflib.get_close_matches(word, possibilities, n=1, cutoff=0.4): the
\* possibility with the largest (ratio, possibility) among those at the cutoff.
Best(ratio) ==
    IF DOMAIN ratio = {} THEN <<>>
    ELSE <<CHOOSE x \in DOMAIN ratio :
             \A y \in DOMAIN ratio :
                \/ y = x
                \/ RatioLess(ratio[y], ratio[x])
                \/ (~RatioLess(ratio[x], ratio[y]) /\ StrLess(y, x))>>

\* The possibilities at the cutoff, each with its ratio as <<matches, length>>.
AtCutoff(ratio) ==
    [x \in {y \in DOMAIN ratio : RatioAtLeastCutoff(ratio[y][1], ratio[y][2])} |-> ratio[x]]

\* The possibilities that pass real_quick_ratio() and quick_ratio().
Close(word, possibilities) ==
    {x \in Range(possibilities) :
        /\ RatioAtLeastCutoff(MinOf(Len(x), Len(word)), Len(x) + Len(word))
        /\ RatioAtLeastCutoff(QuickMatches(x, word), Len(x) + Len(word))}

get_close_matches(word, possibilities) ==
    Best(AtCutoff([x \in Close(word, possibilities) |->
                        <<Matches(x, word), Len(x) + Len(word)>>]))

\* ------------------------------------------------------------------ cascade

Result(typ, k, m, qt, stage) ==
    [typ |-> typ, key |-> k, matched |-> m, question_type |-> qt, stage |-> stage]

\* Indices of VOCAB, in iteration order, that pass a stage's test.
FirstIndex(S) == CHOOSE i \in S : \A j \in S : i <= j

\* ExceedsThreshold with >= for >.
AtLeastThreshold(common, words, weight) == common * weight >= 3 * words

\* score > 0.3 for score = (common / max(words, 1)) * weight in IEEE doubles, with
\* weight in tenths. The product is exact or rounds to the side of the exact
\* value except 0.375 * 0.8, which rounds up to 0.30000000000000004.
ExceedsThreshold(common, words, weight) ==
    \/ common * weight > 3 * words
    \/ weight = 8 /\ common * weight = 3 * words

\* The loop of step 5 from item i on: best is <<common, weight, index>>, and
\* score > best_score compares common * weight (the divisor is the same, and
\* the doubles order as the products do for terms under five words).
RECURSIVE OverlapFrom(_, _, _, _)
RECURSIVE OverlapStep(_, _, _, _, _)
OverlapStep(V, query_words, i, best, common) ==
    IF common > 0 /\ common * V[i].v.weight > best[1] * best[2]
    THEN OverlapFrom(V, query_words, i + 1, <<common, V[i].v.weight, i>>)
    ELSE OverlapFrom(V, query_words, i + 1, best)

OverlapFrom(V, query_words, i, best) ==
    IF i > Len(V) THEN best
    ELSE OverlapStep(V, query_words, i, best,
                     Cardinality(query_words \cap WordSet(V[i].k)))

MaxOf(a, b) == IF a >= b THEN a ELSE b

\* The tuple for item i of VOCAB.
ResultAt(V, i, stage) == Result(V[i].v.typ, V[i].v.key, V[i].k, "general", stage)

\* SIXTH: fuzzy matching, and the final return.
FuzzyStage(V, matches) ==
    IF matches # <<>>
    THEN Result(DictGet(V, matches[1]).typ, DictGet(V, matches[1]).key, matches[1],
                "general", 6)
    ELSE Result(None, None, None, "general", 7)

\* FIFTH: word-by-word matching.
OverlapAccept(V, clean, words, best) ==
    IF ExceedsThreshold(best[1], MaxOf(words, 1), best[2])
    THEN ResultAt(V, best[3], 5)
    ELSE FuzzyStage(V, get_close_matches(clean, DictKeys(V)))

OverlapStage(V, clean, query_words) ==
    OverlapAccept(V, clean, Cardinality(query_words),
                  OverlapFrom(V, query_words, 1, <<0, 0, 0>>))

\* FOURTH: medication-specific queries.
KeywordStage(V, clean) ==
    IF \E word \in {"arv", "art", "hiv drug", "antiretroviral"} : Contains(word, clean)
    THEN IF \E word \in {"example", "list", "type", "name"} : Contains(word, clean)
         THEN Result("medicine", "arv_examples", "arv examples", "examples", 4)
         ELSE Result("glossary", "art", "art", "definition", 4)
    ELSE OverlapStage(V, clean, WordSet(clean))

\* THIRD: the query contains a vocabulary term.
SubstringPick(V, clean, inside) ==
    IF inside # {} THEN ResultAt(V, FirstIndex(inside), 3) ELSE KeywordStage(V, clean)

\* SubstringStage with len(vocab_term) > 3 for > 2.
SubstringStageOverThree(V, clean) ==
    SubstringPick(V, clean,
                  {i \in 1..Len(V) : Len(V[i].k) > 3 /\ Contains(V[i].k, clean)})

SubstringStage(V, clean) ==
    SubstringPick(V, clean,
                  {i \in 1..Len(V) : Len(V[i].k) > 2 /\ Contains(V[i].k, clean)})

\* SECOND: exact matches in VOCAB.
ExactPick(V, clean, exact) ==
    IF exact # {} THEN ResultAt(V, FirstIndex(exact), 2) ELSE SubstringStage(V, clean)

ExactStage(V, clean) == ExactPick(V, clean, {i \in 1..Len(V) : V[i].k = clean})

\* SpecialStage tried after the exact vocabulary match instead of before it.
ExactBeforeSpecial(V, clean, special_match) ==
    IF {i \in 1..Len(V) : V[i].k = clean} # {}
    THEN ResultAt(V, FirstIndex({i \in 1..Len(V) : V[i].k = clean}), 2)
    ELSE IF special_match # <<>>
    THEN Result(special_match[1].typ, special_match[1].key, special_match[1].matched,
                IF Contains("examples", special_match[1].matched)
                THEN "examples" ELSE "definition", 1)
    ELSE SubstringStage(V, clean)

\* FIRST: special medication patterns.
SpecialStage(V, clean, special_match) ==
    IF special_match # <<>>
    THEN Result(special_match[1].typ, special_match[1].key, special_match[1].matched,
                IF Contains("examples", special_match[1].matched)
                THEN "examples" ELSE "definition", 1)
    ELSE ExactStage(V, clean)

\* advanced_topic_matching with the step that returned: 0 for the blank text,
\* 1 to 6 for the cascade's steps, 7 for the final return.
Cascade(V, user_text) ==
    IF Falsy(user_text) \/ strip(user_text) = ""
    THEN Result(None, None, None, "general", 0)
    ELSE SpecialStage(V, normalize(user_text), detect_special_medication_patterns(user_text))

Tuple(r) == <<r.typ, r.key, r.matched, r.question_type>>

\* The 4-tuple advanced_topic_matching returns.
advanced_topic_matching(V, user_text) == Tuple(Cascade(V, user_text))

\* ------------------------------------------------------------------ resolver

\* entry.get(lg)
Get(entry, lg) == IF lg \in DOMAIN entry THEN entry[lg] ELSE None

\* a or b
Or(a, b) == IF Falsy(a) THEN b ELSE a

\* content if content else None
Truthy(content) == IF Falsy(content) THEN None ELSE content

\* The content one collection returns for k: None when it has no entry for k
\* or the entry has no content, and the next collection is tried.
Lookup(d, k, lg) ==
    IF DictHas(d, k)
    THEN Truthy(Or(Get(DictGet(d, k), lg), Get(DictGet(d, k), "en")))
    ELSE None

\* generate_targeted_response with the glossary consulted before the medicines.
GlossaryBeforeMedicines(kb, med, glo, k, question_type, lg) ==
    IF Lookup(kb, k, lg) # None THEN Lookup(kb, k, lg)
    ELSE IF Lookup(glo, k, lg) # None THEN Lookup(glo, k, lg)
    ELSE IF Lookup(med, k, lg) # None THEN Lookup(med, k, lg)
    ELSE None

generate_targeted_response(kb, med, glo, k, question_type, lg) ==
    IF Lookup(kb, k, lg) # None THEN Lookup(kb, k, lg)
    ELSE IF Lookup(med, k, lg) # None THEN Lookup(med, k, lg)
    ELSE IF Lookup(glo, k, lg) # None THEN Lookup(glo, k, lg)
    ELSE None

\* ------------------------------------------------------------------ language

sesotho_words ==
    {"ke", "ha", "hona", "lefu", "joang", "tse", "tsa", "mali", "ea", "eng", "ho", "le",
     "ka", "lumela", "ntate", "me", "ena", "keng"}

\* is_sesotho with overlap >= 2 for >= 1.
is_sesothoTwoWords(t) == Cardinality(WordSet(normalize(t)) \cap sesotho_words) >= 2

is_sesotho(t) == Cardinality(WordSet(normalize(t)) \cap sesotho_words) >= 1

\* ------------------------------------------------------------------ translation, QA

\* A call of the handler: the function and its first argument.
Call(fn, arg) == <<fn, arg>>

\* What GoogleTranslator returns for t when it succeeds.
Translated(target, t) == "[" \o target \o "] " \o t

\* translate_to_english / translate_to_sesotho: the translator is asked only
\* for more than 3 characters, and any failure returns the text unchanged.
translate(target, t, outcome) ==
    IF Len(strip(t)) > 3 /\ outcome # "error"
    THEN (IF outcome = "ok" THEN Translated(target, t) ELSE "")
    ELSE t

\* What the translator may do: translate, return nothing, or raise.
TranslateOutcomes == {"ok", "empty", "error"}

\* What the QA pipeline may do: raise, or return an answer with a score (in
\* hundredths).
QAResult(raises, answer, score) == [raises |-> raises, answer |-> answer, score |-> score]

QAOutcomes ==
    {QAResult(TRUE, "", 0),
     QAResult(FALSE, "", 90),
     QAResult(FALSE, "ARVs", 90),
     QAResult(FALSE, " take ARVs daily ", 10),
     QAResult(FALSE, " take ARVs daily ", 90)}

\* smart_qa_fallback(question, lang) once qa_model is set, for the outcome qa of
\* the pipeline and the outcome tr of translating the answer.
smart_qa_fallback(question, lg, qa, tr) ==
    IF qa.raises THEN None
    ELSE LET answer == strip(qa.answer)
         IN  IF answer # "" /\ qa.score > 10 /\ Len(split(answer)) >= 2
             THEN (IF lg = "st" THEN translate("st", answer, tr) ELSE answer)
             ELSE None

\* The calls smart_qa_fallback makes.
QACalls(question, lg, accepted) ==
    <<Call("smart_qa_fallback", question)>>
    \o (IF lg = "st" THEN <<Call("translate_to_english", question)>> ELSE <<>>)
    \o <<Call("qa_model", "")>>
    \o (IF accepted /\ lg = "st" THEN <<Call("translate_to_sesotho", "")>> ELSE <<>>)

\* ------------------------------------------------------------------ chat

\* A JSON value of the request body: a str, or something else.
Str(s) == [type |-> "str", val |-> s]
Absent == [type |-> "absent", val |-> ""]
Null == [type |-> "null", val |-> ""]
Number == [type |-> "number", val |-> "42"]

\* The response texts, with their non-ASCII signs left out.
PromptResponse == "Please type a question."

fallback_responses ==
    [en |-> "I understand you're asking about health. Could you please rephrase your question or ask about: ...",
     st |-> "Ke utloisisa hore u botsa ka bophelo. Ka kopo, buisa potso kapa u botsise ka: ..."]

disclaimer ==
    [en |-> "\n\nNote: This is health information, not medical advice. Consult a healthcare professional.",
     st |-> "\n\nTlhokomeliso: Tsena ke tlhahisoleseding ya bophelo, eseng keletso ea bongaka. Buisana le setsebi sa bophelo."]

NoMatch == Result(None, None, None, None, 0)

\* data.get('lang', 'en'), then lang if lang in ('en', 'st') else 'en'
RequestedLang(d) ==
    LET given == IF d.lang = Absent THEN Str("en") ELSE d.lang
    IN  IF given.type = "str" /\ given.val \in {"en", "st"} THEN given.val ELSE "en"

\* data.get('message', '')
RequestedText(d) == IF d.message = Absent THEN Str("") ELSE d.message

\* IsBlank without the strip().
IsBlankUnstripped(m) == m.type # "str" \/ Len(m.val) = 0

\* not isinstance(text, str) or len(text.strip()) == 0
IsBlank(m) == m.type # "str" \/ Len(strip(m.val)) = 0

\* if lang == 'en' and is_sesotho(text): lang = 'st'
DetectLang(lg, t) == IF lg = "en" /\ is_sesotho(t) THEN "st" ELSE lg

\* if typ and key, and typ one of 'kb', 'glossary', 'medicine'
Resolves(m) == ~Falsy(m.typ) /\ ~Falsy(m.key) /\ m.typ \in {"kb", "glossary", "medicine"}

\* Lines 264-296: read the request, answer a blank message at once, else
\* detect the language, match the topic and resolve the match.
Chat_Begin(message, requested) ==
    /\ pc = "idle"
    /\ data' = [message |-> message, lang |-> requested]
    /\ IF IsBlank(RequestedText(data'))
       THEN /\ lang' = RequestedLang(data')
            /\ response' = PromptResponse
            /\ pc' = "done"
            /\ UNCHANGED <<text, match, reply, calls>>
       ELSE /\ text' = strip(RequestedText(data').val)
            /\ lang' = DetectLang(RequestedLang(data'), text')
            /\ match' = Cascade(VOCAB, text')
            /\ reply' = IF Resolves(match')
                        THEN generate_targeted_response(KB, MEDICINES, GLOSSARY, match'.key,
                                                        match'.question_type, lang')
                        ELSE None
            /\ calls' = (IF RequestedLang(data') = "en"
                         THEN <<Call("is_sesotho", text')>> ELSE <<>>)
                        \o <<Call("advanced_topic_matching", text')>>
                        \o (IF Resolves(match')
                            THEN <<Call("generate_targeted_response", match'.key)>>
                            ELSE <<>>)
            /\ pc' = "qa"
            /\ UNCHANGED response
    /\ UNCHANGED knowledge

\* Chat_QA without the `not reply` test.
Chat_QAUnguarded ==
    /\ pc = "qa"
    /\ IF qa_model
       THEN \E qa \in QAOutcomes, tr \in TranslateOutcomes :
               /\ reply' = smart_qa_fallback(text, lang, qa, tr)
               /\ calls' = calls \o QACalls(text, lang, reply' # None)
       ELSE UNCHANGED <<reply, calls>>
    /\ pc' = "final"
    /\ UNCHANGED <<knowledge, data, text, lang, match, response>>

\* Lines 298-301: the QA fallback, with whatever the pipeline and the
\* translator do.
Chat_QA ==
    /\ pc = "qa"
    /\ IF Falsy(reply) /\ qa_model
       THEN \E qa \in QAOutcomes, tr \in TranslateOutcomes :
               /\ reply' = smart_qa_fallback(text, lang, qa, tr)
               /\ calls' = calls \o QACalls(text, lang, reply' # None)
       ELSE UNCHANGED <<reply, calls>>
    /\ pc' = "final"
    /\ UNCHANGED <<knowledge, data, text, lang, match, response>>

\* The key the final fallback of lines 303-311 looks up for clean_text: None
\* when the text names no ARV term.
FinalFallbackKey(clean_text) ==
    IF \E word \in {"arv", "art", "hiv drug", "antiretroviral"} : Contains(word, clean_text)
    THEN IF \E word \in {"example", "list", "type"} : Contains(word, clean_text)
         THEN "arv_examples"
         ELSE "art"
    ELSE None

FinalFallbackType(k) == IF k = "arv_examples" THEN "examples" ELSE "definition"

\* Lines 303-311.
Chat_FinalFallback ==
    /\ pc = "final"
    /\ \E clean_text \in {normalize(text)} :
          IF Falsy(reply) /\ FinalFallbackKey(clean_text) # None
          THEN /\ reply' = generate_targeted_response(
                               KB, MEDICINES, GLOSSARY, FinalFallbackKey(clean_text),
                               FinalFallbackType(FinalFallbackKey(clean_text)), lang)
               /\ calls' = calls \o <<Call("generate_targeted_response",
                                           FinalFallbackKey(clean_text))>>
          ELSE UNCHANGED <<reply, calls>>
    /\ pc' = "ultimate"
    /\ UNCHANGED <<knowledge, data, text, lang, match, response>>

\* UltimateReply without the canned fallback.
NoUltimateReply(r, lg) == r

\* if not reply: reply = fallback_responses[lang]
UltimateReply(r, lg) == IF Falsy(r) THEN fallback_responses[lg] ELSE r

\* Lines 313-330: the canned fallback, the disclaimer and the response.
Chat_Respond ==
    /\ pc = "ultimate"
    /\ reply' = UltimateReply(reply, lang)
    /\ response' = reply' \o disclaimer[lang]
    /\ pc' = "done"
    /\ UNCHANGED <<knowledge, data, text, lang, match, calls>>

\* The handler has returned; the next request starts from nothing.
Return ==
    /\ pc = "done"
    /\ pc' = "idle"
    /\ data' = [message |-> Absent, lang |-> Absent]
    /\ text' = None
    /\ lang' = None
    /\ match' = NoMatch
    /\ reply' = None
    /\ response' = None
    /\ calls' = <<>>
    /\ UNCHANGED knowledge

\* ------------------------------------------------------------------ startup

MaxEntries == 2

RECURSIVE PickFrom(_, _, _)
PickFrom(pool, S, i) ==
    IF i > Len(pool) THEN <<>>
    ELSE (IF i \in S THEN <<pool[i]>> ELSE <<>>) \o PickFrom(pool, S, i + 1)

\* The dicts of at most MaxEntries items of the pool, in the pool's order.
DictsOf(pool) ==
    {PickFrom(pool, S, 1) : S \in {T \in SUBSET (1..Len(pool)) : Cardinality(T) <= MaxEntries}}

Fact(k, tags, en, st) == [k |-> k, v |-> [tags |-> tags, en |-> en, st |-> st]]
Entry(k, en, st) == [k |-> k, v |-> [en |-> en, st |-> st]]

VocabKBPool ==
    <<Fact("hiv_basics", <<"HIV", "hiv drug">>, "kb hiv", None),
      Fact("tb", <<"tb", "hiv">>, "kb tb", None),
      Fact("treatment", <<"ART", "Pill">>, "kb treatment", None)>>

VocabGlossaryPool ==
    <<Entry("HIV", "glossary hiv", None),
      Entry("art", "glossary art", None),
      Entry("Drug", "glossary drug", None)>>

VocabMedicinesPool ==
    <<Entry("arv_examples", "medicine arvs", None),
      Entry("ART", "medicine art", None),
      Entry("pill", "medicine pill", None)>>

\* No request is being handled.
NoRequest ==
    /\ data = [message |-> Absent, lang |-> Absent]
    /\ text = None
    /\ lang = None
    /\ match = NoMatch
    /\ reply = None
    /\ response = None
    /\ calls = <<>>

InitVocab ==
    /\ KB \in DictsOf(VocabKBPool)
    /\ GLOSSARY \in DictsOf(VocabGlossaryPool)
    /\ MEDICINES \in DictsOf(VocabMedicinesPool)
    /\ qa_model = FALSE
    /\ VOCAB = <<>>
    /\ pc = "vocab_kb"
    /\ NoRequest

LoadKB ==
    /\ pc = "vocab_kb"
    /\ VOCAB' = AddKBEntries(VOCAB, KB)
    /\ pc' = "vocab_glossary"
    /\ UNCHANGED <<KB, GLOSSARY, MEDICINES, qa_model, request>>

LoadGlossary ==
    /\ pc = "vocab_glossary"
    /\ VOCAB' = AddGlossaryEntries(VOCAB, GLOSSARY)
    /\ pc' = "vocab_medicines"
    /\ UNCHANGED <<KB, GLOSSARY, MEDICINES, qa_model, request>>

LoadMedicines ==
    /\ pc = "vocab_medicines"
    /\ VOCAB' = AddMedicineEntries(VOCAB, MEDICINES)
    /\ pc' = "vocab_terms"
    /\ UNCHANGED <<KB, GLOSSARY, MEDICINES, qa_model, request>>

LoadMedicationTerms ==
    /\ pc = "vocab_terms"
    /\ VOCAB' = AddMedicationTerms(VOCAB)
    /\ pc' = "ready"
    /\ UNCHANGED <<KB, GLOSSARY, MEDICINES, qa_model, request>>

NextVocab == LoadKB \/ LoadGlossary \/ LoadMedicines \/ LoadMedicationTerms

SpecVocab == InitVocab /\ [][NextVocab]_vars

\* ------------------------------------------------------------------ requests

MaxTokens == 3
MaxChatTokens == 2

\* The texts and each text with one more token, joined by a single space.
Extended(texts, tokens) ==
    texts \cup {IF p = "" THEN t ELSE p \o " " \o t : p \in texts, t \in tokens}

\* The texts of at most n of the tokens.
RECURSIVE Sentences(_, _)
Sentences(tokens, n) ==
    IF n = 0 THEN {""} ELSE Extended(Sentences(tokens, n - 1), tokens)

\* ------------------------------------------------------------------ the matcher alone

MatchKBPool == <<Fact("nutrition", <<"vitamin d", "What is ARV">>, "kb nutrition", None)>>

MatchGlossaryPool ==
    <<Entry("vitamin a", "glossary vitamin a", None), Entry("ARV", "glossary arv", None)>>

MatchMedicinesPool == <<Entry("Vitamin C", "medicine vitamin c", None)>>

MatchTokens == {"What is", "ARV?", "examples", "vitamin", "heart"}

MatchTexts == Sentences(MatchTokens, MaxTokens)

InitMatch ==
    /\ KB \in DictsOf(MatchKBPool)
    /\ GLOSSARY \in DictsOf(MatchGlossaryPool)
    /\ MEDICINES \in DictsOf(MatchMedicinesPool)
    /\ qa_model = FALSE
    /\ VOCAB = BuildVocab(KB, GLOSSARY, MEDICINES)
    /\ pc = "idle"
    /\ NoRequest

\* advanced_topic_matching(user_text)
Match(user_text) ==
    /\ pc = "idle"
    /\ text' = user_text
    /\ match' = Cascade(VOCAB, user_text)
    /\ calls' = <<Call("advanced_topic_matching", user_text)>>
    /\ pc' = "done"
    /\ UNCHANGED <<knowledge, data, lang, reply, response>>

NextMatch == (\E user_text \in MatchTexts : Match(user_text)) \/ Return

SpecMatch == InitMatch /\ [][NextMatch]_vars

\* ------------------------------------------------------------------ the resolver alone

\* The contents one entry may hold: each language absent, and English empty.
Contents(name) ==
    {[en |-> e, st |-> t] : e \in {None, "", name \o " en"}, t \in {None, name \o " st"}}

ResolveKeys == {"art", "tb"}

InitResolve ==
    /\ KB \in {<<>>} \cup {<<Fact("art", <<>>, c.en, c.st)>> : c \in Contents("kb")}
    /\ MEDICINES \in {<<>>} \cup {<<Entry("art", c.en, c.st)>> : c \in Contents("medicine")}
    /\ GLOSSARY \in {<<>>} \cup {<<Entry("art", c.en, c.st)>> : c \in Contents("glossary")}
    /\ qa_model = FALSE
    /\ VOCAB = BuildVocab(KB, GLOSSARY, MEDICINES)
    /\ pc = "idle"
    /\ NoRequest

\* generate_targeted_response(key, question_type, lang)
Resolve(k, lg) ==
    /\ pc = "idle"
    /\ match' = Result(None, k, None, "general", 0)
    /\ lang' = lg
    /\ reply' = generate_targeted_response(KB, MEDICINES, GLOSSARY, k, "general", lg)
    /\ calls' = <<Call("generate_targeted_response", k)>>
    /\ pc' = "done"
    /\ UNCHANGED <<knowledge, data, text, response>>

NextResolve == (\E k \in ResolveKeys, lg \in {"en", "st"} : Resolve(k, lg)) \/ Return

SpecResolve == InitResolve /\ [][NextResolve]_vars

\* ------------------------------------------------------------------ the service

ChatKBPool == <<Fact("hiv_basics", <<"hiv test">>, "kb hiv en", None)>>

ChatGlossaryPool ==
    <<Entry("art", "glossary art en", "glossary art st"),
      Entry("hiv", "", "glossary hiv st")>>

ChatMedicinesPool == <<Entry("arv_examples", "medicine arvs en", None)>>

ChatTokens == {"ARV", "names", "list", "ke", "HIV"}

ChatMessages ==
    {Str(s) : s \in Sentences(ChatTokens, MaxChatTokens) \cup {" ", "\t \n"}}
    \cup {Absent, Null, Number}

ChatLangs == {Absent, Str("en"), Str("st"), Str("fr")}

Init ==
    /\ KB \in DictsOf(ChatKBPool)
    /\ GLOSSARY \in DictsOf(ChatGlossaryPool)
    /\ MEDICINES \in DictsOf(ChatMedicinesPool)
    /\ qa_model \in BOOLEAN
    /\ VOCAB = BuildVocab(KB, GLOSSARY, MEDICINES)
    /\ pc = "idle"
    /\ NoRequest

Next ==
    \/ \E message \in ChatMessages, requested \in ChatLangs : Chat_Begin(message, requested)
    \/ Chat_QA
    \/ Chat_FinalFallback
    \/ Chat_Respond
    \/ Return

Spec == Init /\ [][Next]_vars

\* ------------------------------------------------------------------ claims

\* The phrase j of pattern i occurs in clean.
PhraseIn(i, j, clean) == Contains(SPECIAL_MEDICATION_PATTERNS[i].patterns[j], clean)

PatternIn(i, clean) ==
    \E j \in 1..Len(SPECIAL_MEDICATION_PATTERNS[i].patterns) : PhraseIn(i, j, clean)

\* The match is the target of pattern i with its phrase j as the matched term.
IsTargetOf(m, i, j) ==
    /\ m.typ = (IF SPECIAL_MEDICATION_PATTERNS[i].field = "medicine_key"
                THEN "medicine" ELSE "glossary")
    /\ m.key = SPECIAL_MEDICATION_PATTERNS[i].target
    /\ m.matched = SPECIAL_MEDICATION_PATTERNS[i].patterns[j]

\* C1: for a non-blank input whose normalized text contains a trigger phrase,
\* the matcher returns the target of the first pattern, in declaration order,
\* that has a contained phrase, with the first such phrase of that pattern as
\* the matched term, whatever the vocabulary holds.
C1_CascadePriority ==
    pc = "done" /\ strip(text) # "" =>
        \A i \in 1..Len(SPECIAL_MEDICATION_PATTERNS) :
            (PatternIn(i, normalize(text)) /\ \A h \in 1..(i - 1) : ~PatternIn(h, normalize(text)))
            => \E j \in 1..Len(SPECIAL_MEDICATION_PATTERNS[i].patterns) :
                  /\ PhraseIn(i, j, normalize(text))
                  /\ \A g \in 1..(j - 1) : ~PhraseIn(i, g, normalize(text))
                  /\ IsTargetOf(match, i, j)

\* Phrases of two patterns occur in a text that also contains a vocabulary term.
C1_Witness ==
    /\ pc = "done"
    /\ PatternIn(1, normalize(text))
    /\ PatternIn(2, normalize(text))
    /\ DictHas(VOCAB, "what is arv")
    /\ Contains("what is arv", normalize(text))
    /\ match.matched = "arv examples"

\* The words the text and item i of VOCAB share, times the item's weight: the
\* item's score times ten times the number of query words.
C7_Numerator(i) ==
    Cardinality(WordSet(normalize(text)) \cap WordSet(VOCAB[i].k)) * VOCAB[i].v.weight

C7_Top == MaxIn({0} \cup {C7_Numerator(i) : i \in 1..Len(VOCAB)})

C7_Words == MaxOf(Cardinality(WordSet(normalize(text))), 1)

\* C7: once the cascade is past step 4, step 5 returns a match exactly when
\* the best score is strictly above 0.3, and it returns the first item, in
\* iteration order, among those with the best score.
C7_OverlapThreshold ==
    pc = "done" /\ match.stage >= 5 =>
        /\ match.stage = 5 <=> C7_Top * 10 > 3 * 10 * C7_Words
        /\ match.stage = 5 =>
              /\ match.matched =
                    VOCAB[FirstIndex({i \in 1..Len(VOCAB) : C7_Numerator(i) = C7_Top})].k
              /\ match.typ = DictGet(VOCAB, match.matched).typ
              /\ match.key = DictGet(VOCAB, match.matched).key

\* One word of four shared with a term of weight 1.2: a score of exactly 0.3,
\* rejected, and the cascade went on to the fuzzy step.
C7_Witness ==
    /\ pc = "done"
    /\ match.stage \in {6, 7}
    /\ C7_Words = 4
    /\ C7_Top = 12

DomainWords == {"arv", "art", "hiv drug", "antiretroviral"}

ExamplesTuple == <<"medicine", "arv_examples", "arv examples", "examples">>

DefinitionTuple == <<"glossary", "art", "art", "definition">>

\* Step 4 never returns: the four domain words are vocabulary terms of more
\* than 2 characters, so a text containing one returns by step 3.
C10_StepFourDead ==
    /\ \A w \in DomainWords : DictHas(VOCAB, w) /\ Len(w) > 2
    /\ pc = "done" =>
          /\ match.stage # 4
          /\ (\E w \in DomainWords : Contains(w, normalize(text))) /\ strip(text) # ""
             => match.stage \in {1, 2, 3}

\* C10 as claimed: step 4 never returns, and neither of its two tuples is ever
\* the matcher's result.
C10_Original ==
    /\ C10_StepFourDead
    /\ pc = "done" => Tuple(match) \notin {ExamplesTuple, DefinitionTuple}

\* C10 amended: step 4 never returns and its definition tuple is never the
\* result; its examples tuple is the result only of the special pattern step.
C10_Amended ==
    /\ C10_StepFourDead
    /\ pc = "done" =>
          /\ Tuple(match) # DefinitionTuple
          /\ Tuple(match) = ExamplesTuple => match.stage = 1

\* A text with 'art' inside a word and no trigger phrase returned at step 3.
C10_Witness ==
    /\ pc = "done"
    /\ Contains("art", normalize(text))
    /\ ~Contains("arv", normalize(text))
    /\ match.stage = 3

\* The collections in the order the resolver consults them.
Consulted == <<KB, MEDICINES, GLOSSARY>>

\* The content an entry gives for the language lg: its own, else the English.
C4_Content(entry, lg) ==
    IF ~Falsy(Get(entry, lg)) THEN Get(entry, lg)
    ELSE IF ~Falsy(Get(entry, "en")) THEN Get(entry, "en")
    ELSE None

C4_ReplyOfFirst(holders) ==
    IF holders = {} THEN None
    ELSE C4_Content(DictGet(Consulted[FirstIndex(holders)], match.key), lang)

\* C4 as claimed: the first collection that contains the key decides alone.
C4_Original ==
    pc = "done" =>
        reply = C4_ReplyOfFirst({i \in 1..3 : DictHas(Consulted[i], match.key)})

\* C4 amended: the first collection, in the order Facts, Medicines, Glossary,
\* whose entry for the key has content for lang or in English decides; nothing
\* is returned only when no collection has such an entry.
C4_Amended ==
    pc = "done" =>
        reply = C4_ReplyOfFirst(
                    {i \in 1..3 : /\ DictHas(Consulted[i], match.key)
                                  /\ C4_Content(DictGet(Consulted[i], match.key), lang) # None})

\* The key is in Facts without content, and a later collection answered.
C4_Witness ==
    /\ pc = "done"
    /\ DictHas(KB, match.key)
    /\ C4_Content(DictGet(KB, match.key), lang) = None
    /\ reply # None

Production(term, value) == [term |-> term, value |-> value]

RECURSIVE C5_Tags(_, _)
C5_Tags(kb, i) ==
    IF i > Len(kb) THEN <<>>
    ELSE [j \in 1..Len(kb[i].v.tags) |->
             Production(lower(kb[i].v.tags[j]), VocabValue("kb", kb[i].k, 10))]
         \o C5_Tags(kb, i + 1)

\* What the three collections produce, in insertion order.
C5_Collections ==
    C5_Tags(KB, 1)
    \o [i \in 1..Len(GLOSSARY) |->
           Production(lower(GLOSSARY[i].k), VocabValue("glossary", GLOSSARY[i].k, 10))]
    \o [i \in 1..Len(MEDICINES) |->
           Production(lower(MEDICINES[i].k), VocabValue("medicine", MEDICINES[i].k, 12))]

\* What the synonym list produces.
C5_Synonyms ==
    [i \in 1..Len(medication_terms) |->
        Production(medication_terms[i], VocabValue("medicine", "arv_examples", 8))]

\* The value of the latest production of the term.
C5_Last(productions, term) ==
    productions[CHOOSE i \in 1..Len(productions) :
                    /\ productions[i].term = term
                    /\ \A j \in (i + 1)..Len(productions) : productions[j].term # term].value

C5_LastWins(productions) ==
    \A i \in 1..Len(productions) :
        /\ DictHas(VOCAB, productions[i].term)
        /\ DictGet(VOCAB, productions[i].term) = C5_Last(productions, productions[i].term)

\* C5 as claimed: the latest production wins over the whole order, the
\* synonym list included.
C5_Original == pc = "ready" => C5_LastWins(C5_Collections \o C5_Synonyms)

\* C5 amended: the latest production wins among Fact tags, Glossary terms and
\* Medicine keys; a synonym is entered only for a term none of them produced.
C5_Amended ==
    pc = "ready" =>
        /\ C5_LastWins(C5_Collections)
        /\ \A i \in 1..Len(C5_Synonyms) :
              /\ DictHas(VOCAB, C5_Synonyms[i].term)
              /\ (\A j \in 1..Len(C5_Collections) :
                        C5_Collections[j].term # C5_Synonyms[i].term)
                 => DictGet(VOCAB, C5_Synonyms[i].term) = C5_Synonyms[i].value
        /\ \A i \in 1..Len(VOCAB) :
              \E q \in Range(C5_Collections \o C5_Synonyms) : q.term = VOCAB[i].k

\* Two collections produced one term, and a collection produced a synonym.
C5_Witness ==
    /\ pc = "ready"
    /\ \E i, j \in 1..Len(C5_Collections) :
          /\ i < j
          /\ C5_Collections[i].term = C5_Collections[j].term
          /\ C5_Collections[i].value # C5_Collections[j].value
    /\ \E i \in 1..Len(C5_Collections) :
          C5_Collections[i].term \in Range(medication_terms)

\* The message is missing, not a string, empty or only whitespace.
BlankMessage(m) ==
    m.type # "str" \/ \A i \in 1..Len(m.val) : Char(m.val, i) \in SpaceSet

Handling == pc \in {"qa", "final", "ultimate"}

\* C2: for a non-blank message the handler always has a next step until it
\* returns, and it returns a non-empty reply followed by the disclaimer of the
\* resolved language.
C2_Convergence ==
    /\ pc = "qa" => ENABLED Chat_QA
    /\ pc = "final" => ENABLED Chat_FinalFallback
    /\ pc = "ultimate" => ENABLED Chat_Respond
    /\ pc = "done" /\ ~BlankMessage(data.message) =>
          /\ lang \in {"en", "st"}
          /\ ~Falsy(reply)
          /\ Len(reply) > 0
          /\ response = reply \o disclaimer[lang]

\* The QA pipeline was asked, gave nothing, and the canned Sesotho text went out.
C2_Witness ==
    /\ pc = "done"
    /\ Call("qa_model", "") \in Range(calls)
    /\ lang = "st"
    /\ response = fallback_responses["st"] \o disclaimer["st"]

\* C3: the stages run in the order resolution, QA, last resort, canned
\* fallback, and a stage that finds a reply already there does nothing: no
\* call is made and the reply is kept.
C3_FallbackOrdering ==
    [][/\ pc = "idle" => pc' \in {"qa", "done"}
       /\ pc = "qa" => pc' = "final"
       /\ pc = "final" => pc' = "ultimate"
       /\ pc = "ultimate" => pc' = "done"
       /\ Handling /\ ~Falsy(reply) => reply' = reply /\ calls' = calls
       /\ pc = "qa" /\ calls' # calls => qa_model
       /\ pc = "ultimate" /\ reply' = fallback_responses[lang] => Falsy(reply)]_vars

\* Every stage ran and found nothing: resolution, QA, last resort, canned text.
C3_Witness ==
    /\ pc = "done"
    /\ Len(calls) >= 2
    /\ calls[Len(calls)][1] = "generate_targeted_response"
    /\ Call("qa_model", "") \in Range(calls)
    /\ \E i \in 1..(Len(calls) - 1) : calls[i][1] = "generate_targeted_response"
    /\ reply = fallback_responses[lang]

\* C6: a blank message gets the fixed prompt and nothing else happens: no
\* call, no text, no match, no reply, no disclaimer.
C6_BlankShortCircuit ==
    pc # "idle" /\ BlankMessage(data.message) =>
        /\ pc = "done"
        /\ response = PromptResponse
        /\ calls = <<>>
        /\ text = None
        /\ match = NoMatch
        /\ reply = None

C6_Witness ==
    /\ pc = "done"
    /\ data.message = Str("\t \n")
    /\ data.lang = Str("st")
    /\ response = PromptResponse

\* C8 as claimed: the last resort looks up the key cascade step 4 returns for
\* the same text.
C8_SameTest ==
    [][pc = "final" /\ calls' # calls =>
          calls'[Len(calls')] =
              Call("generate_targeted_response", KeywordStage(VOCAB, normalize(text)).key)]_vars

\* The language the claim gives for the request.
C9_Language ==
    IF \/ data.lang = Str("st")
       \/ WordSet(normalize(data.message.val)) \cap sesotho_words # {}
    THEN "st" ELSE "en"

\* C9: the language of a non-blank request is 'st' exactly when 'st' was
\* requested or the message has a Sesotho stop word, else 'en'; the content
\* lookup, the canned fallback and the disclaimer use it.
C9_LanguageResolution ==
    pc # "idle" /\ ~BlankMessage(data.message) =>
        /\ lang = C9_Language
        /\ lang \in {"en", "st"}
        /\ pc = "qa" =>
              reply = IF Resolves(match)
                      THEN generate_targeted_response(KB, MEDICINES, GLOSSARY, match.key,
                                                      match.question_type, C9_Language)
                      ELSE None
        /\ pc = "done" =>
              /\ response = reply \o disclaimer[C9_Language]
              /\ reply \in {fallback_responses[l] : l \in {"en", "st"}}
                 => reply = fallback_responses[C9_Language]

\* An unknown requested language, and a stop word switched 'en' to 'st'.
C9_Witness ==
    /\ pc = "done"
    /\ data.lang = Str("fr")
    /\ lang = "st"
    /\ reply = fallback_responses["st"]

====
